---- MODULE Spec2Model ----
(***************************************************************************)
(* Model of the structural_cron library: the cron field grammar            *)
(* (src/src/format.rs), the formatter (src/src/format.rs) and the matcher  *)
(* (src/src/expr.rs).                                                      *)
(*                                                                         *)
(* Text is a sequence of one-character strings.  A Field is a record       *)
(* tagged by t: All, Value(v), Range(lo,hi), List(items), Step(base,s).    *)
(* An Option is either the value or None; a ParseResult is Ok(expr) or     *)
(* Err(err).  A check yields "true" or "false", or names the arithmetic    *)
(* fault the evaluation runs into.                                         *)
(***************************************************************************)
EXTENDS Integers, Sequences, FiniteSets

VARIABLES
    pc,         \* what has been done so far
    token,      \* the token under study (the first field of text), when there is one
    text,       \* the argument of CronExpr::parse
    parsed,     \* its result
    formatted,  \* to_string of the parsed expression
    reparsed,   \* CronExpr::parse of formatted
    dt,         \* the argument of check_time
    matched,    \* its result
    field,      \* the receiver of Field::check
    value,      \* its argument
    accepted    \* its result

vars == <<pc, token, text, parsed, formatted, reparsed, dt, matched, field, value, accepted>>

(***************************************************************************)
(* Bounds of the explored inputs                                           *)
(***************************************************************************)
MaxTokLen == 5      \* longest token studied on its own
MaxVal == 4         \* values 0..MaxVal are tested against each field
MaxNonStar == 2     \* most tokens of a text or expression that differ from "*"

NumFields == 6      \* the fields of an expression

U8Max == 255

None == [t |-> "None"]

(***************************************************************************)
(* Characters and strings                                                  *)
(***************************************************************************)
Digits == <<"0", "1", "2", "3", "4", "5", "6", "7", "8", "9">>

IsDigit(c) == \E i \in 1..10 : Digits[i] = c

DigitVal(c) == (CHOOSE i \in 1..10 : Digits[i] = c) - 1

IsAsciiWhitespace(c) == c \in {" ", "\t", "\n", "\f", "\r"}

Contains(s, c) == \E i \in 1..Len(s) : s[i] = c

\* position of the first c in s, 0 when there is none
Find(s, c) ==
    IF Contains(s, c)
    THEN CHOOSE i \in 1..Len(s) : s[i] = c /\ \A j \in 1..(i - 1) : s[j] # c
    ELSE 0

\* position of the last c in s, 0 when there is none
RFind(s, c) ==
    IF Contains(s, c)
    THEN CHOOSE i \in 1..Len(s) : s[i] = c /\ \A j \in (i + 1)..Len(s) : s[j] # c
    ELSE 0

\* str::split_once: the text before and after the first c
SplitOnce(s, c) ==
    LET i == Find(s, c)
    IN  IF i = 0 THEN None
        ELSE [t |-> "Some", left |-> SubSeq(s, 1, i - 1), right |-> SubSeq(s, i + 1, Len(s))]

\* str::rsplit_once: the text before and after the last c
RSplitOnce(s, c) ==
    LET i == RFind(s, c)
    IN  IF i = 0 THEN None
        ELSE [t |-> "Some", left |-> SubSeq(s, 1, i - 1), right |-> SubSeq(s, i + 1, Len(s))]

\* str::split(',') : one piece more than there are commas, pieces may be empty
RECURSIVE SplitChar(_, _)
SplitChar(s, c) ==
    LET i == Find(s, c)
    IN  IF i = 0 THEN <<s>>
        ELSE <<SubSeq(s, 1, i - 1)>> \o SplitChar(SubSeq(s, i + 1, Len(s)), c)

\* position of the first ASCII whitespace character in s, 0 when there is none
FindWhitespace(s) ==
    IF \E i \in 1..Len(s) : IsAsciiWhitespace(s[i])
    THEN CHOOSE i \in 1..Len(s) :
            IsAsciiWhitespace(s[i]) /\ \A j \in 1..(i - 1) : ~IsAsciiWhitespace(s[j])
    ELSE 0

\* str::split(|c| c.is_ascii_whitespace()) : every whitespace character ends a piece
RECURSIVE SplitWhitespace(_)
SplitWhitespace(s) ==
    LET i == FindWhitespace(s)
    IN  IF i = 0 THEN <<s>>
        ELSE <<SubSeq(s, 1, i - 1)>> \o SplitWhitespace(SubSeq(s, i + 1, Len(s)))

Some(x) == [t |-> "Some", v |-> x]

\* the digit loop of str::parse::<u8>, most significant digit first: -1 on a
\* character that is no digit and when the value leaves the range of u8
RECURSIVE ParseDigits(_, _)
ParseDigits(s, acc) ==
    IF s = <<>> THEN acc
    ELSE IF ~IsDigit(Head(s)) THEN -1
    ELSE IF acc * 10 + DigitVal(Head(s)) > U8Max THEN -1
    ELSE ParseDigits(Tail(s), acc * 10 + DigitVal(Head(s)))

\* str::parse::<u8>: an optional '+', then at least one digit
ParseU8(s) ==
    LET digits == IF s # <<>> /\ Head(s) = "+" THEN Tail(s) ELSE s
        n == ParseDigits(digits, 0)
    IN  IF digits = <<>> \/ n < 0 THEN None ELSE Some(n)

\* u8::to_string: decimal, no sign, no leading zero
RECURSIVE U8ToString(_)
U8ToString(n) ==
    IF n < 10 THEN <<Digits[n + 1]>>
    ELSE U8ToString(n \div 10) \o <<Digits[(n % 10) + 1]>>

(***************************************************************************)
(* Values: Field, ListValue, StepValue (src/src/expr.rs)                   *)
(***************************************************************************)
All == [t |-> "All"]

Value(v) == [t |-> "Value", v |-> v]

Range(lo, hi) == [t |-> "Range", lo |-> lo, hi |-> hi]

List(items) == [t |-> "List", items |-> items]

Step(base, s) == [t |-> "Step", base |-> base, s |-> s]

Ok(x) == [t |-> "Ok", v |-> x]

Err(e) == [t |-> "Err", err |-> e]

(***************************************************************************)
(* The field grammar (src/src/format.rs)                                   *)
(***************************************************************************)
\* parse_range that takes a text without '-' for the range of one value
parse_range_single(fld) ==
    LET sp == SplitOnce(fld, "-")
        one == ParseU8(fld)
    IN  IF sp = None THEN (IF one = None THEN None ELSE Range(one.v, one.v))
        ELSE LET s == ParseU8(sp.left)
                 e == ParseU8(sp.right)
             IN  IF s = None THEN None
                 ELSE IF e = None THEN None
                 ELSE Range(s.v, e.v)

\* parse_range: split at the first '-', both sides are u8
parse_range(fld) ==
    LET sp == SplitOnce(fld, "-")
    IN  IF sp = None THEN None
        ELSE LET s == ParseU8(sp.left)
                 e == ParseU8(sp.right)
             IN  IF s = None THEN None
                 ELSE IF e = None THEN None
                 ELSE Range(s.v, e.v)

\* parse_step: split at the last '/', the step is a u8, the base "*" or a range
parse_step(fld) ==
    LET sp == RSplitOnce(fld, "/")
    IN  IF sp = None THEN None
        ELSE LET s == ParseU8(sp.right)
             IN  IF s = None THEN None
                 ELSE IF sp.left = <<"*">> THEN Step(All, s.v)
                 ELSE LET r == parse_range(sp.left)
                      IN  IF r = None THEN None ELSE Step(r, s.v)

\* the loop of parse_list: every item is a u8 or a range, else the list fails
RECURSIVE parse_list_items(_)
parse_list_items(items) ==
    IF items = <<>> THEN Some(<<>>)
    ELSE LET int_val == ParseU8(Head(items))
             item_value == IF int_val # None THEN Value(int_val.v)
                           ELSE parse_range(Head(items))
         IN  IF item_value = None THEN None
             ELSE LET rest == parse_list_items(Tail(items))
                  IN  IF rest = None THEN None
                      ELSE Some(<<item_value>> \o rest.v)

\* parse_list without the rejection of a list of fewer than two items
parse_list_any_len(fld) ==
    parse_list_items(SplitChar(fld, ","))

\* parse_list: split at every ',', fewer than two items is no list
parse_list(fld) ==
    LET list == parse_list_items(SplitChar(fld, ","))
    IN  IF list = None THEN None
        ELSE IF Len(list.v) < 2 THEN None
        ELSE list

\* parse_field: the forms in the order the code tries them
parse_field(fld) ==
    IF fld = <<"*">> THEN Ok(All)
    ELSE IF ParseU8(fld) # None THEN Ok(Value(ParseU8(fld).v))
    ELSE IF parse_step(fld) # None THEN Ok(parse_step(fld))
    ELSE IF parse_list(fld) # None THEN Ok(List(parse_list(fld).v))
    ELSE IF parse_range(fld) # None THEN Ok(parse_range(fld))
    ELSE Err("Field")

CronExpr(fs) ==
    [second |-> fs[1], minute |-> fs[2], hour |-> fs[3],
     day |-> fs[4], month |-> fs[5], day_of_week |-> fs[6]]

\* parse_fields that counts the pieces before it parses any of them
parse_fields_count_first(pieces, i, acc) ==
    IF Len(pieces) < NumFields THEN Err("Incomplete")
    ELSE LET fs == [k \in 1..NumFields |-> parse_field(pieces[k])]
         IN  IF \E k \in 1..NumFields : fs[k].t = "Err" THEN Err("Field")
             ELSE Ok(CronExpr([k \in 1..NumFields |-> fs[k].v]))

\* the six expr_fields.next() of CronExpr::parse, in order: a missing piece is
\* Incomplete, a piece that is no field is Field, whichever comes first
RECURSIVE parse_fields(_, _, _)
parse_fields(pieces, i, acc) ==
    IF i > NumFields THEN Ok(CronExpr(acc))
    ELSE IF i > Len(pieces) THEN Err("Incomplete")
    ELSE LET f == parse_field(pieces[i])
         IN  IF f.t = "Err" THEN Err("Field")
             ELSE parse_fields(pieces, i + 1, Append(acc, f.v))

\* CronExpr::parse
parse(expr_str) ==
    IF expr_str = <<>> THEN Err("Empty")
    ELSE parse_fields(SplitWhitespace(expr_str), 1, <<>>)

(***************************************************************************)
(* The formatter (src/src/format.rs)                                       *)
(***************************************************************************)
\* write_range that writes the smaller bound first
write_range_sorted(r) ==
    IF r.lo <= r.hi THEN U8ToString(r.lo) \o <<"-">> \o U8ToString(r.hi)
    ELSE U8ToString(r.hi) \o <<"-">> \o U8ToString(r.lo)

write_range(r) == U8ToString(r.lo) \o <<"-">> \o U8ToString(r.hi)

write_list_value(list_val) ==
    IF list_val.t = "Value" THEN U8ToString(list_val.v) ELSE write_range(list_val)

\* Vec<String>::join
RECURSIVE Join(_, _)
Join(strs, sep) ==
    IF strs = <<>> THEN <<>>
    ELSE IF Len(strs) = 1 THEN Head(strs)
    ELSE Head(strs) \o sep \o Join(Tail(strs), sep)

write_step_value(sv, s) ==
    (IF sv.t = "All" THEN <<"*">> ELSE write_range(sv)) \o <<"/">> \o U8ToString(s)

write_field(f) ==
    CASE f.t = "All" -> <<"*">>
      [] f.t = "Value" -> U8ToString(f.v)
      [] f.t = "Range" -> write_range(f)
      [] f.t = "List" -> Join([i \in 1..Len(f.items) |-> write_list_value(f.items[i])], <<",">>)
      [] f.t = "Step" -> write_step_value(f.base, f.s)

\* CronExpr::to_string
to_string(e) ==
    Join(<<write_field(e.second), write_field(e.minute), write_field(e.hour),
           write_field(e.day), write_field(e.month), write_field(e.day_of_week)>>,
         <<" ">>)

(***************************************************************************)
(* The matcher (src/src/expr.rs)                                           *)
(***************************************************************************)
Bool(b) == IF b THEN "true" ELSE "false"

\* a && b on checks: b is evaluated only when a is true
AndThen(a, b) == IF a = "true" THEN b ELSE a

\* contains that takes the bounds in either order
RangeContains_either_order(r, x) ==
    (r.lo <= x /\ x <= r.hi) \/ (r.hi <= x /\ x <= r.lo)

\* RangeInclusive<u8>::contains
RangeContains(r, x) == r.lo <= x /\ x <= r.hi

\* the u8 remainder a % step compared with 0; a zero step is an arithmetic fault
RemIsZero(a, step) ==
    IF step = 0 THEN "rem_by_zero" ELSE Bool(a % step = 0)

\* the u8 subtraction x - lo followed by % step == 0; x < lo leaves the range
\* of u8 (a fault in a checked build, a wrapped difference otherwise)
SubRemIsZero(x, lo, step) ==
    IF x < lo THEN "sub_overflow" ELSE RemIsZero(x - lo, step)

\* StepValue::check that subtracts before it looks at the bounds
StepValue_check_subtract_first(sv, step, x) ==
    IF sv.t = "All" THEN RemIsZero(x, step)
    ELSE AndThen(SubRemIsZero(x, sv.lo, step), Bool(RangeContains(sv, x)))

\* StepValue::check that takes the remainder of the value, not of its distance
\* to the start of the range
StepValue_check_from_zero(sv, step, x) ==
    IF sv.t = "All" THEN RemIsZero(x, step)
    ELSE IF ~RangeContains(sv, x) THEN "false"
    ELSE RemIsZero(x, step)

\* StepValue::check
StepValue_check(sv, step, x) ==
    IF sv.t = "All" THEN RemIsZero(x, step)
    ELSE IF ~RangeContains(sv, x) THEN "false"
    ELSE SubRemIsZero(x, sv.lo, step)

\* ListValue::check
ListValue_check(lv, x) ==
    IF lv.t = "Value" THEN lv.v = x ELSE RangeContains(lv, x)

\* Field::check
Field_check(f, x) ==
    CASE f.t = "All" -> "true"
      [] f.t = "Value" -> Bool(f.v = x)
      [] f.t = "Range" -> Bool(RangeContains(f, x))
      [] f.t = "List" -> Bool(\E i \in 1..Len(f.items) : ListValue_check(f.items[i], x))
      [] f.t = "Step" -> StepValue_check(f.base, f.s, x)

Months == <<"Jan", "Feb", "Mar", "Apr", "May", "Jun",
            "Jul", "Aug", "Sep", "Oct", "Nov", "Dec">>

\* Into<u8> for Month
MonthToU8(m) == CHOOSE i \in 1..12 : Months[i] = m

DaysOfWeek == <<"Sun", "Mon", "Tue", "Wed", "Thu", "Fri", "Sat">>

\* Into<u8> for DayOfWeek
DayOfWeekToU8(d) == (CHOOSE i \in 1..7 : DaysOfWeek[i] = d) - 1

DateTime(s, mi, h, d, mo, w) ==
    [second |-> s, minute |-> mi, hour |-> h, day |-> d, month |-> mo, day_of_week |-> w]

\* CronExpr::check_time
check_time(e, t) ==
    AndThen(Field_check(e.second, t.second),
    AndThen(Field_check(e.minute, t.minute),
    AndThen(Field_check(e.hour, t.hour),
    AndThen(Field_check(e.day, t.day),
    AndThen(Field_check(e.month, MonthToU8(t.month)),
            Field_check(e.day_of_week, DayOfWeekToU8(t.day_of_week)))))))

(***************************************************************************)
(* Inputs                                                                  *)
(***************************************************************************)
Star == <<"*">>

\* the characters of the tokens studied on their own
FieldChars == {"0", "1", "*", "/", "-", ",", "+"}

Tokens == UNION {[1..n -> FieldChars] : n \in 0..MaxTokLen}

\* a token as the first field of an expression whose other fields are "*"
AsSecond(tok) == tok \o <<" ", "*", " ", "*", " ", "*", " ", "*", " ", "*">>

\* the values tested against a parsed field
CheckVals == (0..MaxVal) \cup {10, 11, U8Max}

\* the tokens of the texts handed to CronExpr::parse, beside "*"
OtherTokens ==
    { <<"+", "1">>,
      <<"5", "-", "1">>,
      <<"*", "/", "0">>,
      <<"0", "-", "3", "0", "/", "5">>,
      <<"1", "3", "-", "1", "5", ",", "1", "8">>,
      <<"x">> }

\* n tokens, at most MaxNonStar of them not "*"
TokSeqs(n) ==
    UNION { { [i \in 1..n |-> IF i \in P THEN a[i] ELSE Star] : a \in [P -> OtherTokens] } :
            P \in {Q \in SUBSET (1..n) : Cardinality(Q) <= MaxNonStar} }

\* the whitespace of a text: before the first token, between two tokens, after
\* the last token
Layouts ==
    { [lead |-> <<>>, sep |-> <<" ">>, trail |-> <<>>],
      [lead |-> <<>>, sep |-> <<"\t">>, trail |-> <<>>],
      [lead |-> <<>>, sep |-> <<" ", " ">>, trail |-> <<>>],
      [lead |-> <<>>, sep |-> <<" ", "\t">>, trail |-> <<>>],
      [lead |-> <<" ">>, sep |-> <<" ">>, trail |-> <<>>],
      [lead |-> <<>>, sep |-> <<" ">>, trail |-> <<" ">>] }

\* what follows the sixth token of a text that has six
Tails == { <<>>, <<" ", "x">>, <<" ", "*", " ", "5", "-", "1">> }

TailsOf(n) == IF n = NumFields THEN Tails ELSE { <<>> }

\* the times handed to check_time
TimeVals == {1, 2}

Times ==
    { DateTime(s, mi, h, d, mo, w) :
        s \in TimeVals, mi \in TimeVals, h \in TimeVals, d \in TimeVals,
        mo \in {"Jan", "Dec"}, w \in {"Sun", "Tue"} }

\* the tokens of the expressions handed to check_time, beside "*"
MatchTokens ==
    { <<"2">>,
      <<"1", "-", "3">>,
      <<"3", "-", "1">>,
      <<"1", ",", "3", "-", "4">>,
      <<"*", "/", "2">>,
      <<"1", "-", "3", "/", "2">>,
      <<"*", "/", "0">>,
      <<"1", "-", "3", "/", "0">> }

(***************************************************************************)
(* The operations                                                          *)
(***************************************************************************)
Blank ==
    /\ pc = "text"
    /\ parsed = None
    /\ formatted = <<>>
    /\ reparsed = None
    /\ dt = None
    /\ matched = "none"
    /\ field = None
    /\ value = 0
    /\ accepted = "none"

Parse ==
    /\ pc = "text"
    /\ parsed' = parse(text)
    /\ pc' = "parsed"
    /\ UNCHANGED <<token, text, formatted, reparsed, dt, matched, field, value, accepted>>

ToString ==
    /\ pc = "parsed"
    /\ parsed.t = "Ok"
    /\ formatted' = to_string(parsed.v)
    /\ pc' = "formatted"
    /\ UNCHANGED <<token, text, parsed, reparsed, dt, matched, field, value, accepted>>

Reparse ==
    /\ pc = "formatted"
    /\ reparsed' = parse(formatted)
    /\ pc' = "reparsed"
    /\ UNCHANGED <<token, text, parsed, formatted, dt, matched, field, value, accepted>>

CheckTime ==
    /\ pc = "parsed"
    /\ parsed.t = "Ok"
    /\ \E t \in Times :
        /\ dt' = t
        /\ matched' = check_time(parsed.v, t)
    /\ pc' = "matched"
    /\ UNCHANGED <<token, text, parsed, formatted, reparsed, field, value, accepted>>

FieldCheck ==
    /\ pc = "parsed"
    /\ parsed.t = "Ok"
    /\ \E x \in CheckVals :
        /\ field' = parsed.v.second
        /\ value' = x
        /\ accepted' = Field_check(parsed.v.second, x)
    /\ pc' = "checked"
    /\ UNCHANGED <<token, text, parsed, formatted, reparsed, dt, matched>>

(***************************************************************************)
(* Spec: a text of up to six tokens, or of six tokens and more, through    *)
(* CronExpr::parse, to_string and CronExpr::parse again                    *)
(***************************************************************************)
Init ==
    /\ Blank
    /\ token = <<>>
    /\ \E n \in 0..NumFields :
        \E toks \in TokSeqs(n), lay \in Layouts, tail \in TailsOf(n) :
            text = lay.lead \o Join(toks, lay.sep) \o tail \o lay.trail

Next == Parse \/ ToString \/ Reparse

Spec == Init /\ [][Next]_vars

(***************************************************************************)
(* SpecField: every short token as the first field of an expression,       *)
(* through CronExpr::parse, then the values through Field::check           *)
(***************************************************************************)
InitField ==
    /\ Blank
    /\ token \in Tokens
    /\ text = AsSecond(token)

NextField == Parse \/ FieldCheck

SpecField == InitField /\ [][NextField]_vars

(***************************************************************************)
(* SpecMatch: six tokens through CronExpr::parse, then the times through   *)
(* check_time                                                              *)
(***************************************************************************)
InitMatch ==
    /\ Blank
    /\ token = <<>>
    /\ \E P \in {Q \in SUBSET (1..NumFields) : Cardinality(Q) <= MaxNonStar} :
        \E a \in [P -> MatchTokens] :
            text = Join([i \in 1..NumFields |-> IF i \in P THEN a[i] ELSE Star], <<" ">>)

NextMatch == Parse \/ CheckTime

SpecMatch == InitMatch /\ [][NextMatch]_vars

(***************************************************************************)
(* The vocabulary of the properties                                        *)
(***************************************************************************)
\* the tokens of a text: its maximal runs of characters that are no whitespace
RECURSIVE WsTokens(_)
WsTokens(s) ==
    IF s = <<>> THEN <<>>
    ELSE IF IsAsciiWhitespace(Head(s)) THEN WsTokens(Tail(s))
    ELSE LET i == FindWhitespace(s)
         IN  IF i = 0 THEN <<s>>
             ELSE <<SubSeq(s, 1, i - 1)>> \o WsTokens(SubSeq(s, i + 1, Len(s)))

\* whitespace that is more than one character between two tokens: at the
\* start, at the end, or two whitespace characters in a row
HasStrayWhitespace(s) ==
    /\ s # <<>>
    /\ \/ IsAsciiWhitespace(s[1])
       \/ IsAsciiWhitespace(s[Len(s)])
       \/ \E i \in 1..(Len(s) - 1) : IsAsciiWhitespace(s[i]) /\ IsAsciiWhitespace(s[i + 1])

IsValidField(tok) == parse_field(tok).t = "Ok"

AllValid(toks) == \A i \in 1..Len(toks) : IsValidField(toks[i])

FieldsOf(e) == <<e.second, e.minute, e.hour, e.day, e.month, e.day_of_week>>

IsDescending(r) == r.t = "Range" /\ r.lo > r.hi

HasZeroStep(e) == \E i \in 1..NumFields : FieldsOf(e)[i].t = "Step" /\ FieldsOf(e)[i].s = 0

\* what a field accepts, for a step that is not zero
ItemAccepts(it, x) ==
    IF it.t = "Value" THEN x = it.v ELSE it.lo <= x /\ x <= it.hi

Accepts(f, x) ==
    CASE f.t = "All" -> TRUE
      [] f.t = "Value" -> x = f.v
      [] f.t = "Range" -> f.lo <= x /\ x <= f.hi
      [] f.t = "List" -> \E i \in 1..Len(f.items) : ItemAccepts(f.items[i], x)
      [] f.t = "Step" ->
            IF f.base.t = "All" THEN x % f.s = 0
            ELSE f.base.lo <= x /\ x <= f.base.hi /\ (x - f.base.lo) % f.s = 0

MonthNumber ==
    [Jan |-> 1, Feb |-> 2, Mar |-> 3, Apr |-> 4, May |-> 5, Jun |-> 6,
     Jul |-> 7, Aug |-> 8, Sep |-> 9, Oct |-> 10, Nov |-> 11, Dec |-> 12]

WeekdayNumber ==
    [Sun |-> 0, Mon |-> 1, Tue |-> 2, Wed |-> 3, Thu |-> 4, Fri |-> 5, Sat |-> 6]

AllAccept(e, t) ==
    /\ Accepts(e.second, t.second)
    /\ Accepts(e.minute, t.minute)
    /\ Accepts(e.hour, t.hour)
    /\ Accepts(e.day, t.day)
    /\ Accepts(e.month, MonthNumber[t.month])
    /\ Accepts(e.day_of_week, WeekdayNumber[t.day_of_week])

(***************************************************************************)
(* Properties of Spec                                                      *)
(***************************************************************************)
\* C1: whenever CronExpr::parse succeeds on a text, CronExpr::parse of the
\* to_string of the expression succeeds too and returns an equal expression,
\* descending ranges and zero steps included.
C1_RoundTrip ==
    pc = "reparsed" => (parsed.t = "Ok" /\ reparsed.t = "Ok" /\ reparsed.v = parsed.v)

\* C1 witness: an expression with a descending range and a zero step, parsed
\* from a text that is not its canonical text, has been formatted and re-parsed.
C1_Witness ==
    /\ pc = "reparsed"
    /\ formatted # text
    /\ \E i \in 1..NumFields : IsDescending(FieldsOf(parsed.v)[i])
    /\ HasZeroStep(parsed.v)

\* C4 as claimed, on the texts whose tokens single whitespace characters
\* separate: a non-empty text of fewer than six tokens fails with Incomplete,
\* whatever its tokens are.
C4_AlwaysIncomplete ==
    (/\ pc # "text"
     /\ text # <<>>
     /\ ~HasStrayWhitespace(text)
     /\ Len(WsTokens(text)) < NumFields)
        => parsed = Err("Incomplete")

\* C4 amended: a non-empty text of fewer than six tokens fails; with Incomplete
\* when all its tokens are fields and single whitespace characters separate
\* them (none at the start, none at the end), with Field in every other case.
C4_IncompleteOrField ==
    (pc # "text" /\ text # <<>> /\ Len(WsTokens(text)) < NumFields)
        => /\ parsed.t = "Err"
           /\ parsed.err =
                IF AllValid(WsTokens(text)) /\ ~HasStrayWhitespace(text)
                THEN "Incomplete" ELSE "Field"

\* C4 witness: a text of fewer than six tokens, one of them no field, has
\* failed with Field.
C4_Witness ==
    /\ pc = "parsed"
    /\ Len(WsTokens(text)) \in 1..(NumFields - 1)
    /\ ~HasStrayWhitespace(text)
    /\ ~AllValid(WsTokens(text))
    /\ parsed = Err("Field")

\* C5 as claimed: six valid tokens separated by runs of spaces and tabs parse
\* to what the same tokens separated by single spaces parse to.
C5_SplitsOnRuns ==
    (/\ pc # "text"
     /\ Len(WsTokens(text)) = NumFields
     /\ AllValid(WsTokens(text))
     /\ ~IsAsciiWhitespace(text[1])
     /\ ~IsAsciiWhitespace(text[Len(text)]))
        => /\ parsed.t = "Ok"
           /\ parsed = parse(Join(WsTokens(text), <<" ">>))

\* C8 as claimed: a text with tokens beyond the sixth, whose first six tokens
\* are fields, parses to what these six tokens alone parse to.
C8_ExtraTokensIgnored ==
    (/\ pc # "text"
     /\ Len(WsTokens(text)) > NumFields
     /\ AllValid(SubSeq(WsTokens(text), 1, NumFields)))
        => /\ parsed.t = "Ok"
           /\ parsed = parse(Join(SubSeq(WsTokens(text), 1, NumFields), <<" ">>))

(***************************************************************************)
(* Properties of SpecField                                                 *)
(***************************************************************************)
\* C6: a List field of a parsed expression holds at least two items; a token
\* without a comma never parses to a List; a token with a comma and an item
\* that is neither an integer nor a range fails with ParseError::Field.
C6_ListPlurality ==
    pc # "text" =>
        /\ parsed.t = "Ok" =>
                \A i \in 1..NumFields :
                    FieldsOf(parsed.v)[i].t = "List" => Len(FieldsOf(parsed.v)[i].items) >= 2
        /\ ~Contains(token, ",") => ~(parsed.t = "Ok" /\ parsed.v.second.t = "List")
        /\ (/\ Contains(token, ",")
            /\ \E i \in 1..Len(SplitChar(token, ",")) :
                    /\ ParseU8(SplitChar(token, ",")[i]) = None
                    /\ parse_range(SplitChar(token, ",")[i]) = None)
                => parsed = Err("Field")

\* C6 witness: a token with a comma has parsed to a List of a value and a range.
C6_Witness ==
    /\ pc = "parsed"
    /\ parsed.t = "Ok"
    /\ parsed.v.second.t = "List"
    /\ Len(parsed.v.second.items) = 2
    /\ parsed.v.second.items[1].t = "Value"
    /\ parsed.v.second.items[2].t = "Range"

\* C7: Field::check never takes the difference value - lo of a value below lo,
\* and a step over a range rejects every value below the start of the range.
C7_NoUnderflow ==
    /\ accepted # "sub_overflow"
    /\ (pc = "checked" /\ field.t = "Step" /\ field.base.t = "Range" /\ value < field.base.lo)
            => accepted = "false"

\* C7 witness: a step over a range has been checked against a value below the
\* start of the range.
C7_Witness ==
    /\ pc = "checked"
    /\ field.t = "Step"
    /\ field.base.t = "Range"
    /\ field.base.lo <= field.base.hi
    /\ value < field.base.lo
    /\ accepted = "false"

\* the forms that recognise a token
Recognizers(tok) ==
    {f \in {"star", "integer", "step", "list", "range"} :
        \/ f = "star" /\ tok = Star
        \/ f = "integer" /\ ParseU8(tok) # None
        \/ f = "step" /\ parse_step(tok) # None
        \/ f = "list" /\ parse_list(tok) # None
        \/ f = "range" /\ parse_range(tok) # None}

\* what a form makes of a token it recognises
FormResult(f, tok) ==
    CASE f = "star" -> All
      [] f = "integer" -> Value(ParseU8(tok).v)
      [] f = "step" -> parse_step(tok)
      [] f = "list" -> List(parse_list(tok).v)
      [] f = "range" -> parse_range(tok)

\* C10: at most one form recognises a token, the field is what that form makes
\* of it (ParseError::Field when there is none), and a token with a '/' gives
\* a Step or ParseError::Field.
C10_FormsExclusive ==
    pc # "text" =>
        /\ Cardinality(Recognizers(token)) <= 1
        /\ \A f \in Recognizers(token) : parsed.t = "Ok" /\ parsed.v.second = FormResult(f, token)
        /\ Recognizers(token) = {} => parsed = Err("Field")
        /\ Contains(token, "/") => (parsed = Err("Field") \/ parsed.v.second.t = "Step")

\* C10 witness: a token with a '/' and a '-' has parsed to a Step.
C10_Witness ==
    /\ pc = "parsed"
    /\ Contains(token, "/")
    /\ Contains(token, "-")
    /\ parsed.t = "Ok"
    /\ parsed.v.second.t = "Step"

\* C9: the parser accepts a descending range, and it matches nothing: alone,
\* as the base of a step that is not zero, and as an item of a list, which
\* then matches through its other items only.
C9_DescendingNeverMatches ==
    /\ pc # "text" =>
            \A lo \in 0..11, hi \in 0..11 :
                (lo > hi /\ token = U8ToString(lo) \o <<"-">> \o U8ToString(hi))
                    => parsed.t = "Ok" /\ parsed.v.second = Range(lo, hi)
    /\ pc = "checked" =>
            /\ IsDescending(field) => accepted = "false"
            /\ (field.t = "Step" /\ field.s # 0 /\ IsDescending(field.base)) => accepted = "false"
            /\ (field.t = "List" /\ \E i \in 1..Len(field.items) : IsDescending(field.items[i]))
                    => accepted \in {"true", "false"}
                       /\ (accepted = "true") =
                            (\E i \in 1..Len(field.items) :
                                /\ ~IsDescending(field.items[i])
                                /\ ItemAccepts(field.items[i], value))

\* C9 witness: a step over a descending range has been checked against a value
\* between its bounds.
C9_Witness ==
    /\ pc = "checked"
    /\ field.t = "Step"
    /\ field.s # 0
    /\ IsDescending(field.base)
    /\ field.base.hi <= value
    /\ value <= field.base.lo
    /\ accepted = "false"

(***************************************************************************)
(* Properties of SpecMatch                                                 *)
(***************************************************************************)
\* C2 as claimed: check_time returns a boolean for every parsed expression and
\* every time, without an arithmetic fault.
C2_MatcherTotal ==
    pc = "matched" => matched \in {"true", "false"}

\* C3: for an expression without a zero step, check_time returns true exactly
\* when each of the six fields accepts its own component of the time.
C3_MatchesIffAllAccept ==
    (pc = "matched" /\ ~HasZeroStep(parsed.v))
        => /\ matched \in {"true", "false"}
           /\ (matched = "true") = AllAccept(parsed.v, dt)

\* C3 witness: an expression with a step over a range and a list has matched.
C3_Witness ==
    /\ pc = "matched"
    /\ ~HasZeroStep(parsed.v)
    /\ \E i \in 1..NumFields :
            FieldsOf(parsed.v)[i].t = "Step" /\ FieldsOf(parsed.v)[i].base.t = "Range"
    /\ \E i \in 1..NumFields : FieldsOf(parsed.v)[i].t = "List"
    /\ matched = "true"

====
